---- MODULE Spec2Model ----
(***************************************************************************)
(* A model of the to-do list web application of src/main.py: the three     *)
(* tables (User, ListTODO, Task), the login session of a browser, and one  *)
(* action per route handler.  Every handler runs to completion against the *)
(* store; its writes reach the store at db.session.commit() and are rolled *)
(* back when the handler raises before it.                                  *)
(*                                                                         *)
(* Values.  TLC compares only values of one type, so Python's None is      *)
(* written per column type: None (a string no form value equals) for text, *)
(* NULL (0, never a row id) for ids, NoDate (the empty tuple) for dates.   *)
(* A form is a MultiDict: every field is the sequence of the values        *)
(* submitted under that name (<<>> when the field is absent).              *)
(***************************************************************************)
EXTENDS FiniteSets, Integers, Sequences, TLC

\* ------------------------------------------------------------- bounds

\* At most MaxLists ListTODO rows and MaxTasks Task rows are in the store.
MaxLists == 2
MaxTasks == 2
\* The longest 'deadline' / 'description' array a request submits.
MaxForm == 2

\* ------------------------------------------------------------- values

None == "None"
NULL == 0
NoDate == <<>>
Anonymous == NULL

\* The calendar dates of the model, <<year, month, day>>.
Dates == {<<2024, 1, 5>>}
\* dt.today(): the clock is fixed for a run.
Today == <<2024, 1, 5>>

Pad2(n) == IF n < 10 THEN "0" \o ToString(n) ELSE ToString(n)

\* date.strftime(fmt) for the fmt "%Y<sep>%m<sep>%d".
Strftime(d, sep) == ToString(d[1]) \o sep \o Pad2(d[2]) \o sep \o Pad2(d[3])

\* The "%Y-%m-%d" text of every date.
IsoText == [d \in Dates |-> Strftime(d, "-")]
IsoTexts == { IsoText[d] : d \in Dates }

\* dt.strptime(s, "%Y-%m-%d") succeeds exactly on the strings of that format.
StrptimeOk(s) == s \in IsoTexts

\* dt.strptime(s, "%Y-%m-%d"): the date whose "%Y-%m-%d" text is s.
Strptime(s) == CHOOSE d \in Dates : IsoText[d] = s

\* The default name of a new list.
DefaultListName == "My to-do list " \o Strftime(Today, "/")

\* request.form.get(key): the first submitted value, or None.
FormGet(field) == IF field = <<>> THEN None ELSE field[1]

\* Sequences over S of length at most n.
SeqUpTo(S, n) == UNION { [1..k -> S] : k \in 0..n }

\* ------------------------------------------------------------- inputs

\* What a browser may submit.
NameFields == { <<>>, <<"Ann">> }
EmailFields == { <<>>, <<"a@x.com">>, <<"b@x.com">>, <<"nobody">> }
PasswordFields == { <<>>, <<"short">>, <<"password1">>, <<"password2">> }
Methods == { "GET", "POST" }
Salts == { "s1", "s2" }
\* The text of a new task, and the texts a bulk update writes.
NewDescriptions == { "a" }
DescriptionValues == { "a", "b" }
DescriptionFields == { <<>> } \cup { <<d>> : d \in NewDescriptions }
ListNameFields == { <<>>, <<"Chores">> }
DeadlineValues == { "", "2024-01-05", "05/01/2024" }
ListIds == 1..(MaxLists + 1)
DoneValues == { ToString(i) : i \in 1..(MaxTasks + 1) }

\* ------------------------------------------------------------- validators

\* wtforms DataRequired: the field is submitted and is not blank.
DataRequired(field) == field # <<>> /\ field[1] # ""

\* wtforms Email: the value has the syntax of an address.
EmailSyntax(field) == field # <<>> /\ field[1] \in { "a@x.com", "b@x.com" }

\* wtforms Length(min=8).
MinPasswordLength == 8
LengthMin(field) == field # <<>> /\ Len(field[1]) >= MinPasswordLength

RegisterFormValid(form) ==
    /\ DataRequired(form.name)
    /\ EmailSyntax(form.email) /\ DataRequired(form.email)
    /\ DataRequired(form.password) /\ LengthMin(form.password)

LoginFormValid(form) ==
    /\ DataRequired(form.email)
    /\ DataRequired(form.password)

\* ------------------------------------------------------------- passwords

\* The salted one-way digest of a password.
Pbkdf2(salt, password) == "pbkdf2:sha256(" \o salt \o "," \o password \o ")"

\* werkzeug generate_password_hash: the salt is stored beside the digest.
generate_password_hash(password, salt) ==
    [salt |-> salt, digest |-> Pbkdf2(salt, password)]

check_password_hash_Always(pwhash, password) == TRUE

\* werkzeug check_password_hash: recompute the digest under the stored salt.
check_password_hash(pwhash, password) ==
    pwhash.digest = Pbkdf2(pwhash.salt, password)

\* ------------------------------------------------------------- state

VARIABLES
    users,      \* the User table: records [id, email, password, name]
    lists,      \* the ListTODO table: records [id, name, author_id]
    tasks,      \* the Task table: records [id, done, description, tasks_list, deadline]
    session,    \* the user id the browser's session cookie holds, or Anonymous
                \* (load_user finds it on every request: no User is deleted)
    response    \* the response to the last request

vars == <<users, lists, tasks, session, response>>

\* ------------------------------------------------------------- the store

Max(S) == CHOOSE m \in S : \A x \in S : x <= m
Min(S) == CHOOSE m \in S : \A x \in S : m <= x

\* An INTEGER PRIMARY KEY of SQLite: one more than the largest id in the table.
NextId(table) == IF table = {} THEN 1 ELSE Max({ r.id : r \in table }) + 1

\* db.select(T).where(T.id == id) ... .scalar(): the rows with that id
\* (none or one).
ById(table, id) == { r \in table : r.id = id }

EmailTaken_Never(us, email) == FALSE

\* db.select(User).where(User.email == email) ... .scalar() is not None.
EmailTaken(us, email) == \E u \in us : u.email = email

ListsOf_All(ls, user_id) == { l.id : l \in ls }

\* db.select(ListTODO).where(ListTODO.author_id == user_id) ... .scalars()
ListsOf(ls, user_id) == { l.id : l \in { x \in ls : x.author_id = user_id } }

\* ------------------------------------------------------------- responses

Page(template, data) ==
    [status |-> 200, page |-> template, flash |-> "", data |-> data,
     completed |-> FALSE]
Flash(template, message) ==
    [status |-> 200, page |-> template, flash |-> message, data |-> <<>>,
     completed |-> FALSE]
Redirect(endpoint, message) ==
    [status |-> 302, page |-> endpoint, flash |-> message, data |-> <<>>,
     completed |-> FALSE]
\* flask-login without a login_view: abort(401).
Unauthorized ==
    [status |-> 401, page |-> "", flash |-> "", data |-> <<>>, completed |-> FALSE]
\* An exception no handler catches: the error page names it.
ServerError(exception) ==
    [status |-> 500, page |-> exception, flash |-> "", data |-> <<>>,
     completed |-> FALSE]

\* The templates are not part of the source: create-tasks.html given data=None
\* renders or raises.
RenderStatus == { 200, 500 }
RenderList(found, status) ==
    IF found = {} THEN (IF status = 200 THEN Page("create-tasks.html", <<>>)
                        ELSE ServerError("UndefinedError"))
    ELSE Page("create-tasks.html", << { l.id : l \in found } >>)

\* ------------------------------------------------------------- handlers
\* Each handler is an operator from the state it reads and the request to the
\* state it leaves and its response; the actions below apply them.

\* GET /
home(ls, sess) ==
    Page("index.html", IF sess = Anonymous THEN <<>> ELSE <<ListsOf(ls, sess)>>)

\* GET, POST /register
register(us, sess, method, form, salt) ==
    IF method = "POST" /\ RegisterFormValid(form)
    THEN LET new_user == [id |-> NextId(us),
                          email |-> FormGet(form.email),
                          name |-> FormGet(form.name),
                          password |-> generate_password_hash(
                                           FormGet(form.password), salt)]
         IN IF EmailTaken(us, new_user.email)
            THEN [users |-> us, session |-> sess,
                  response |-> Flash("register.html", "This email already exists")]
            ELSE [users |-> us \cup {new_user}, session |-> new_user.id,
                  response |-> Redirect("home", "")]
    ELSE [users |-> us, session |-> sess, response |-> Page("register.html", <<>>)]

\* GET, POST /login
login(us, sess, method, form) ==
    IF method = "POST" /\ LoginFormValid(form)
    THEN LET found == { u \in us : u.email = FormGet(form.email) }
         IN IF found = {}
            THEN [session |-> sess,
                  response |-> Redirect("login",
                                   "That email does not exist, please try again.")]
            ELSE LET user == CHOOSE u \in found : TRUE
                 IN IF ~check_password_hash(user.password, FormGet(form.password))
                    THEN [session |-> sess,
                          response |-> Flash("login.html",
                                   "Invalid email or password, please try again.")]
                    ELSE [session |-> user.id, response |-> Redirect("home", "")]
    ELSE [session |-> sess, response |-> Page("login.html", <<>>)]

\* GET /logout
logout == [session |-> Anonymous, response |-> Page("index.html", <<>>)]

NewTask(ts, description, parent) ==
    [id |-> NextId(ts), done |-> FALSE, description |-> description,
     tasks_list |-> parent, deadline |-> NoDate]

\* The id of the row a query found, NULL when it found none.
IdOrNull(found) == IF found = {} THEN NULL ELSE (CHOOSE l \in found : TRUE).id

\* GET, POST /new-list.  The list is committed before the task is built: a
\* task without a description (NOT NULL) fails the second commit only.
create_list(ls, ts, sess, method, form) ==
    IF sess = Anonymous
    THEN [lists |-> ls, tasks |-> ts, response |-> Unauthorized]
    ELSE IF method = "POST"
    THEN LET new_list == [id |-> NextId(ls), name |-> DefaultListName,
                          author_id |-> sess]
             description == FormGet(form.description)
         IN IF description = None
            THEN [lists |-> ls \cup {new_list}, tasks |-> ts,
                  response |-> ServerError("IntegrityError")]
            ELSE [lists |-> ls \cup {new_list},
                  tasks |-> ts \cup {NewTask(ts, description, new_list.id)},
                  response |-> Page("create-tasks.html", << {new_list.id} >>)]
    ELSE [lists |-> ls, tasks |-> ts, response |-> Page("make-list.html", <<>>)]

\* GET /all_task/<list_id>
all_task(ls, list_id, rendered) == RenderList(ById(ls, list_id), rendered)

\* POST /add_task/<list_id>
add_task(ls, ts, list_id, form, rendered) ==
    LET parent_list == ById(ls, list_id)
        description == FormGet(form.next_task)
    IN IF description = None
       THEN [tasks |-> ts, response |-> ServerError("IntegrityError")]
       ELSE [tasks |-> ts \cup {NewTask(ts, description, IdOrNull(parent_list))},
             response |-> RenderList(parent_list, rendered)]

RECURSIVE Ascending(_)
\* The ids of S in ascending order.
Ascending(S) == IF S = {} THEN <<>> ELSE <<Min(S)>> \o Ascending(S \ {Min(S)})

\* [task.id for task in list_to_update.tasks if task.done == 0]
NotDoneIds(ts, list_id) ==
    Ascending({ t.id : t \in { x \in ts : x.tasks_list = list_id /\ ~x.done } })

\* The decimal text of every task id.
IdText == [i \in 1..(MaxTasks + 1) |-> ToString(i)]

\* Task.id == task, for a submitted string: SQLite compares it as a number.
IdIs(t, value) == IdText[t.id] = value

MarkDone_WholeList(ts, done, list_id) ==
    { IF (\E d \in done : IdIs(t, d)) \/ t.tasks_list = list_id
      THEN [t EXCEPT !.done = TRUE] ELSE t : t \in ts }

\* for task in tasks_done: task_to_complete.done = True
MarkDone(ts, done, list_id) ==
    { IF \E d \in done : IdIs(t, d) THEN [t EXCEPT !.done = TRUE] ELSE t : t \in ts }

\* due_to_dates.index(date): the first position that holds the value.
Index(seq, value) == Min({ j \in 1..Len(seq) : seq[j] = value })

SetDescription(ts, id, description) ==
    { IF t.id = id THEN [t EXCEPT !.description = description] ELSE t : t \in ts }
SetDeadline(ts, id, date) ==
    { IF t.id = id THEN [t EXCEPT !.deadline = date] ELSE t : t \in ts }

RECURSIVE EditLoop(_, _, _, _, _)
\* for date in due_to_dates: ... from the i-th date on.  error names the
\* exception of an index out of range or a date that does not parse ("" when
\* the loop ends); tasks is the session's working copy at that point.
EditLoop(ts, todo, dates, descriptions, i) ==
    IF i > Len(dates) THEN [error |-> "", tasks |-> ts]
    ELSE LET index == Index(dates, dates[i])
         IN IF index > Len(todo) \/ index > Len(descriptions)
            THEN [error |-> "IndexError", tasks |-> ts]
            ELSE LET ts1 == SetDescription(ts, todo[index], descriptions[index])
                 IN IF dates[i] = ""
                    THEN EditLoop(ts1, todo, dates, descriptions, i + 1)
                    ELSE IF ~StrptimeOk(dates[i])
                    THEN [error |-> "ValueError", tasks |-> ts1]
                    ELSE EditLoop(SetDeadline(ts1, todo[index], Strptime(dates[i])),
                                  todo, dates, descriptions, i + 1)

Persist_Always(txn, ls, ts) == [lists |-> txn.lists, tasks |-> txn.tasks]

\* db.session.commit() is the handler's last write: the session's working copy
\* reaches the store only when the handler got that far.
Persist(txn, ls, ts) ==
    IF txn.error = "" THEN [lists |-> txn.lists, tasks |-> txn.tasks]
    ELSE [lists |-> ls, tasks |-> ts]

\* The session's working copy of an update_list request when it reaches its
\* commit (error "") or raises (error the exception).
UpdateTxn(ls, ts, list_id, form) ==
    LET name == FormGet(form.name)
        ls1 == IF name # None
               THEN { IF l.id = list_id THEN [l EXCEPT !.name = name] ELSE l : l \in ls }
               ELSE ls
        tasks_to_update == NotDoneIds(ts, list_id)
        ts1 == MarkDone(ts, form.done, list_id)
    IN IF \E d \in form.done : \A t \in ts : ~IdIs(t, d)
       THEN [error |-> "AttributeError", lists |-> ls1, tasks |-> ts1]
       ELSE LET loop == EditLoop(ts1, tasks_to_update, form.deadline,
                                 form.description, 1)
            IN [error |-> loop.error, lists |-> ls1, tasks |-> loop.tasks]

\* GET, POST /update_list/<list_id>
update_list(ls, ts, list_id, form) ==
    IF ById(ls, list_id) = {}
    THEN [lists |-> ls, tasks |-> ts, response |-> ServerError("AttributeError")]
    ELSE LET txn == UpdateTxn(ls, ts, list_id, form)
             kept == Persist(txn, ls, ts)
             progress == \A t \in kept.tasks : t.tasks_list = list_id => t.done
         IN [lists |-> kept.lists, tasks |-> kept.tasks,
             response |-> IF txn.error = ""
                          THEN [Page("create-tasks.html", << {list_id} >>)
                                    EXCEPT !.completed = progress]
                          ELSE ServerError(txn.error)]

\* GET /all_lists
all_lists(ls, sess) ==
    IF sess = Anonymous THEN Unauthorized
    ELSE Page("all-lists.html", <<ListsOf(ls, sess)>>)

DeleteRows_OfAuthor(ls, found) ==
    { l \in ls : \A d \in found : l.author_id # d.author_id }

\* db.session.delete(deleted_list)
DeleteRows(ls, found) == ls \ found

\* GET /delete_list/<list_id>.  The relationship has no delete cascade: the
\* tasks of the list stay, their tasks_list set to NULL.
delete_list(ls, ts, list_id) ==
    LET deleted_list == ById(ls, list_id)
    IN IF deleted_list = {}
       THEN [lists |-> ls, tasks |-> ts,
             response |-> ServerError("UnmappedInstanceError")]
       ELSE [lists |-> DeleteRows(ls, deleted_list),
             tasks |-> { IF t.tasks_list = list_id
                         THEN [t EXCEPT !.tasks_list = NULL] ELSE t : t \in ts },
             response |-> Redirect("all_lists", "")]

\* ------------------------------------------------------------- requests

RegisterForms == [name : NameFields, email : EmailFields, password : PasswordFields]
LoginForms == [email : EmailFields, password : PasswordFields]
CreateForms == [description : DescriptionFields]
AddForms == [next_task : DescriptionFields]
UpdateForms == [name : ListNameFields, done : SUBSET DoneValues,
                deadline : SeqUpTo(DeadlineValues, MaxForm),
                description : SeqUpTo(DescriptionValues, MaxForm)]
\* The bulk updates that rename and mark done and edit no task.
RenameDoneForms == { form \in UpdateForms :
                        form.deadline = <<>> /\ form.description = <<>> }

Init ==
    /\ users = {}
    /\ lists = {}
    /\ tasks = {}
    /\ session = Anonymous
    /\ response = Page("index.html", <<>>)

Home ==
    /\ response' = home(lists, session)
    /\ UNCHANGED <<users, lists, tasks, session>>

Register ==
    \E method \in Methods, form \in RegisterForms, salt \in Salts :
        LET r == register(users, session, method, form, salt)
        IN /\ users' = r.users
           /\ session' = r.session
           /\ response' = r.response
           /\ UNCHANGED <<lists, tasks>>

Login ==
    \E method \in Methods, form \in LoginForms :
        LET r == login(users, session, method, form)
        IN /\ session' = r.session
           /\ response' = r.response
           /\ UNCHANGED <<users, lists, tasks>>

Logout ==
    /\ session' = logout.session
    /\ response' = logout.response
    /\ UNCHANGED <<users, lists, tasks>>

CreateList ==
    \E method \in Methods, form \in CreateForms :
        LET r == create_list(lists, tasks, session, method, form)
        IN /\ Cardinality(r.lists) <= MaxLists
           /\ Cardinality(r.tasks) <= MaxTasks
           /\ lists' = r.lists
           /\ tasks' = r.tasks
           /\ response' = r.response
           /\ UNCHANGED <<users, session>>

AllTask ==
    \E list_id \in ListIds, rendered \in RenderStatus :
        /\ response' = all_task(lists, list_id, rendered)
        /\ UNCHANGED <<users, lists, tasks, session>>

AddTask ==
    \E list_id \in ListIds, form \in AddForms, rendered \in RenderStatus :
        LET r == add_task(lists, tasks, list_id, form, rendered)
        IN /\ Cardinality(r.tasks) <= MaxTasks
           /\ tasks' = r.tasks
           /\ response' = r.response
           /\ UNCHANGED <<users, lists, session>>

UpdateListWith(forms) ==
    \E list_id \in ListIds, form \in forms :
        LET r == update_list(lists, tasks, list_id, form)
        IN /\ lists' = r.lists
           /\ tasks' = r.tasks
           /\ response' = r.response
           /\ UNCHANGED <<users, session>>

UpdateList == UpdateListWith(UpdateForms)
RenameDone == UpdateListWith(RenameDoneForms)

AllLists ==
    /\ response' = all_lists(lists, session)
    /\ UNCHANGED <<users, lists, tasks, session>>

DeleteList ==
    \E list_id \in ListIds :
        LET r == delete_list(lists, tasks, list_id)
        IN /\ lists' = r.lists
           /\ tasks' = r.tasks
           /\ response' = r.response
           /\ UNCHANGED <<users, session>>

NextAuth == Home \/ Register \/ Login \/ Logout

Next ==
    \/ Home \/ Register \/ Login \/ Logout
    \/ CreateList \/ AllTask \/ AddTask \/ UpdateList \/ AllLists \/ DeleteList

\* The whole application, from the empty database.  It reaches InitTodo and
\* InitUpdate, the initial states of the two specifications below that bound
\* it.
Spec == Init /\ [][Next]_vars

\* Registration and login, from the empty database.
SpecAuth == Init /\ [][NextAuth]_vars

\* Two registered users, as SpecAuth reaches them.
SeedUsers ==
    { [id |-> 1, email |-> "a@x.com", name |-> "Ann",
       password |-> generate_password_hash("password1", "s1")],
      [id |-> 2, email |-> "b@x.com", name |-> "Ann",
       password |-> generate_password_hash("password2", "s2")] }

InitTodo ==
    /\ users = SeedUsers
    /\ lists = {}
    /\ tasks = {}
    /\ session = Anonymous
    /\ response = Page("index.html", <<>>)

NextTodo ==
    \/ Home \/ Login \/ Logout
    \/ CreateList \/ AllTask \/ AddTask \/ RenameDone \/ AllLists \/ DeleteList

\* The lists of two registered users: every handler but register, the bulk
\* updates bounded to RenameDoneForms.
SpecTodo == InitTodo /\ [][NextTodo]_vars

\* User 1 is logged in and has created one list, with the task "a".
InitUpdate ==
    /\ users = SeedUsers
    /\ lists = create_list({}, {}, 1, "POST", [description |-> <<"a">>]).lists
    /\ tasks = create_list({}, {}, 1, "POST", [description |-> <<"a">>]).tasks
    /\ session = 1
    /\ response = create_list({}, {}, 1, "POST", [description |-> <<"a">>]).response

NextUpdate == AddTask \/ UpdateList \/ DeleteList

\* The tasks of one list under every bulk update of UpdateForms.
SpecUpdate == InitUpdate /\ [][NextUpdate]_vars
\* ------------------------------------------------------------- properties

OwnedBy(ls, user_id) == { l.id : l \in { x \in ls : x.author_id = user_id } }
Ids(table) == { r.id : r \in table }
Row(table, id) == CHOOSE r \in table : r.id = id

TypeOK ==
    /\ \A u \in users : u.id \in 1..Cardinality(users)
    /\ \A l \in lists : l.id \in 1..MaxLists /\ l.author_id \in Ids(users)
    /\ \A t \in tasks : /\ t.id \in 1..MaxTasks
                        /\ t.done \in BOOLEAN
                        /\ t.description \in DescriptionValues
                        /\ t.tasks_list \in {NULL} \cup (1..MaxLists)
                        /\ t.deadline \in {NoDate} \cup Dates
    /\ Cardinality(Ids(lists)) = Cardinality(lists)
    /\ Cardinality(Ids(tasks)) = Cardinality(tasks)
    /\ session \in {Anonymous} \cup Ids(users)

\* C1: no two User rows share an email; and a register request whose email is
\* that of an existing User leaves the User table as it was and answers with
\* the registration form (status 200, never the redirect home), with the
\* warning "This email already exists" whenever the submission passes the
\* form's validation.
C1_UniqueEmail ==
    /\ \A u, v \in users : u.email = v.email => u = v
    /\ \A method \in Methods, form \in RegisterForms, salt \in Salts :
          (\E u \in users : u.email = FormGet(form.email)) =>
              LET r == register(users, session, method, form, salt)
              IN /\ r.users = users
                 /\ r.session = session
                 /\ r.response.status = 200
                 /\ r.response.page = "register.html"
                 /\ (method = "POST" /\ RegisterFormValid(form)
                       => r.response.flash = "This email already exists")

\* C1's case: both addresses are registered and the last request, a
\* registration under a taken address, was answered with the warning.
C1_Witness ==
    /\ Cardinality(users) = 2
    /\ response.page = "register.html"
    /\ response.flash = "This email already exists"

\* The users a login's credentials name: the email is theirs and the stored
\* hash is the hash of the submitted password under the stored salt.
Authenticates(form) ==
    { u \in users :
        /\ u.email = FormGet(form.email)
        /\ u.password = generate_password_hash(FormGet(form.password),
                                               u.password.salt) }

\* C2: a login request whose email is unknown or whose password does not match
\* the stored hash leaves the session as it was; a login that succeeds (the
\* redirect home) makes the session that of the User with the submitted email;
\* and a posted login with matching credentials succeeds.
C2_LoginNeedsCredentials ==
    \A method \in Methods, form \in LoginForms :
        LET r == login(users, session, method, form)
            success == r.response.status = 302 /\ r.response.page = "home"
        IN /\ Authenticates(form) = {} => r.session = session /\ ~success
           /\ ~success => r.session = session
           /\ success => /\ method = "POST"
                         /\ \E u \in Authenticates(form) : r.session = u.id
                         /\ \A u \in users :
                               r.session = u.id => u.email = FormGet(form.email)
           /\ method = "POST" /\ Authenticates(form) # {} => success

\* C2's case: a user is registered, and a login under a wrong password was
\* just refused, the browser still anonymous.
C2_Witness ==
    /\ users # {}
    /\ session = Anonymous
    /\ response.flash = "Invalid email or password, please try again."

\* C3: every create-list submission (POST /new-list) of an authenticated user
\* adds exactly one List, owned by the caller, and exactly one Task, of that
\* List, with the submitted description, not done and without a deadline; also
\* when the description field is absent.
C3_CreateAddsListAndTask ==
    \A form \in CreateForms :
        session # Anonymous =>
            LET r == create_list(lists, tasks, session, "POST", form)
                new_lists == r.lists \ lists
                new_tasks == r.tasks \ tasks
            IN /\ lists \subseteq r.lists /\ tasks \subseteq r.tasks
               /\ Cardinality(new_lists) = 1
               /\ Cardinality(new_tasks) = 1
               /\ \A l \in new_lists : l.author_id = session
               /\ \A t \in new_tasks :
                     /\ \E l \in new_lists : t.tasks_list = l.id
                     /\ t.description = FormGet(form.description)
                     /\ t.done = FALSE
                     /\ t.deadline = NoDate

\* C4: a bulk update that completes sets done on exactly the tasks its 'done'
\* field names and changes no other task's done flag (whatever list they
\* belong to); and no request to any handler that writes the Task table turns
\* a done task back to not done or removes it.
C4_DoneExactlyAndMonotonic ==
    /\ \A list_id \in ListIds, form \in UpdateForms :
          LET r == update_list(lists, tasks, list_id, form)
          IN /\ Ids(r.tasks) = Ids(tasks)
             /\ r.response.status = 200 =>
                   \A t \in tasks :
                       Row(r.tasks, t.id).done
                           = (t.done \/ IdText[t.id] \in form.done)
             /\ \A t \in tasks : t.done => Row(r.tasks, t.id).done
    /\ \A method \in Methods, form \in CreateForms :
          LET r == create_list(lists, tasks, session, method, form)
          IN \A t \in tasks : t \in r.tasks
    /\ \A list_id \in ListIds, form \in AddForms, rendered \in RenderStatus :
          LET r == add_task(lists, tasks, list_id, form, rendered)
          IN \A t \in tasks : t \in r.tasks
    /\ \A list_id \in ListIds :
          LET r == delete_list(lists, tasks, list_id)
          IN /\ Ids(r.tasks) = Ids(tasks)
             /\ \A t \in tasks : Row(r.tasks, t.id).done = t.done

\* C4's case: a bulk update has completed, and of two tasks it left one done
\* and one not done.
C4_Witness ==
    /\ response.status = 200
    /\ response.page = "create-tasks.html"
    /\ \E t, u \in tasks : t.done /\ ~u.done

\* C5: a bulk update that completes writes, for every submitted position i,
\* the i-th submitted description to the i-th task that was not done when the
\* request began (ascending id), and the i-th submitted deadline when it is
\* not empty, leaving that task's deadline as it was when it is empty; also
\* when submitted deadlines are equal.
C5_PositionalEdit ==
    \A list_id \in ListIds, form \in UpdateForms :
        LET r == update_list(lists, tasks, list_id, form)
            todo == NotDoneIds(tasks, list_id)
        IN r.response.status = 200 =>
               \A i \in 1..Len(form.deadline) :
                   i <= Len(todo) /\ i <= Len(form.description) =>
                       LET before == Row(tasks, todo[i])
                           after == Row(r.tasks, todo[i])
                       IN /\ after.description = form.description[i]
                          /\ after.deadline =
                                 IF form.deadline[i] = "" THEN before.deadline
                                 ELSE Strptime(form.deadline[i])

\* C6: every Task's parent-list reference names a List that is in the store.
C6_TaskHasList ==
    \A t \in tasks : \E l \in lists : l.id = t.tasks_list

\* C7: for every user, the lists that all_lists and home return are exactly
\* the Lists whose owner is that user, so no List of another user; a List a
\* user creates is owned by that user; and the page the browser holds shows
\* the session's own lists.
C7_OwnListsOnly ==
    /\ \A u \in users :
          /\ all_lists(lists, u.id).data = << OwnedBy(lists, u.id) >>
          /\ home(lists, u.id).data = << OwnedBy(lists, u.id) >>
          /\ \A v \in users : \A l \in lists :
                l.author_id = v.id /\ v.id # u.id
                    => l.id \notin all_lists(lists, u.id).data[1]
          /\ \A form \in CreateForms :
                \A l \in create_list(lists, tasks, u.id, "POST", form).lists \ lists :
                    l.author_id = u.id
    /\ response.page = "all-lists.html" =>
          session # Anonymous /\ response.data = << OwnedBy(lists, session) >>
    /\ response.page = "index.html" /\ session # Anonymous =>
          response.data = << OwnedBy(lists, session) >>

\* C7's case: each of the two users owns a list and user 1 has just been
\* shown all-lists: list 1, and not the list of user 2.
C7_Witness ==
    /\ session = 1
    /\ response.page = "all-lists.html"
    /\ \E l \in lists : l.author_id = 1
    /\ \E l \in lists : l.author_id = 2 /\ l.id \notin response.data[1]

\* C8: delete_list with the id of a List in the store removes that row and no
\* other: every user's all-lists result afterwards is the one before less
\* that id; and no other handler but create_list changes which List rows
\* exist.
C8_DeleteExactlyOne ==
    /\ \A list_id \in ListIds :
          ById(lists, list_id) # {} =>
              LET r == delete_list(lists, tasks, list_id)
              IN /\ r.lists = { l \in lists : l.id # list_id }
                 /\ \A u \in users :
                       all_lists(r.lists, u.id).data[1]
                           = all_lists(lists, u.id).data[1] \ {list_id}
    /\ \A list_id \in ListIds, form \in RenameDoneForms :
          Ids(update_list(lists, tasks, list_id, form).lists) = Ids(lists)

\* C8's case: a user owned two lists, one was just deleted and the other is
\* still in the store.
C8_Witness ==
    /\ response.status = 302
    /\ response.page = "all_lists"
    /\ Cardinality(lists) = 1
    /\ Cardinality(tasks) = 2
    /\ \A t \in tasks : \E l \in lists : t.tasks_list \in {NULL, l.id}
    /\ \E t \in tasks : t.tasks_list = NULL

\* C9: a request of all_task, add_task, update_list or delete_list that names
\* a list id no List has is answered 404 and leaves the store as it was.
C9_MissingListIs404 ==
    \A list_id \in ListIds :
        ById(lists, list_id) = {} =>
            /\ \A rendered \in RenderStatus :
                  all_task(lists, list_id, rendered).status = 404
            /\ \A form \in AddForms, rendered \in RenderStatus :
                  LET r == add_task(lists, tasks, list_id, form, rendered)
                  IN r.response.status = 404 /\ r.tasks = tasks
            /\ \A form \in RenameDoneForms :
                  LET r == update_list(lists, tasks, list_id, form)
                  IN r.response.status = 404 /\ r.lists = lists /\ r.tasks = tasks
            /\ LET r == delete_list(lists, tasks, list_id)
               IN r.response.status = 404 /\ r.lists = lists /\ r.tasks = tasks

\* C10: a bulk update that fails (more deadlines than not-done tasks, fewer
\* descriptions than deadlines, a 'done' id that names no Task, a deadline
\* that is no date, a list id that names no List) leaves every List and every
\* Task of the store as it was.
C10_FailedUpdateChangesNothing ==
    \A list_id \in ListIds, form \in UpdateForms :
        LET r == update_list(lists, tasks, list_id, form)
        IN /\ r.response.status \in {200, 500}
           /\ r.response.status = 500 => r.lists = lists /\ r.tasks = tasks
           /\ ById(lists, list_id) # {} =>
                 (r.response.status = 500
                     <=> UpdateTxn(lists, tasks, list_id, form).error # "")

\* C10's case: a bulk update has just failed on an index out of range, and
\* in this store a request fails in each of the three ways after its working
\* copy was changed.
C10_Witness ==
    /\ response.status = 500
    /\ response.page = "IndexError"
    /\ \A error \in {"IndexError", "AttributeError", "ValueError"} :
          \E list_id \in ListIds, form \in UpdateForms :
              LET txn == UpdateTxn(lists, tasks, list_id, form)
              IN /\ ById(lists, list_id) # {}
                 /\ txn.error = error
                 /\ txn.tasks # tasks
                 /\ txn.lists # lists
====
